---- MODULE Spec2Model ----
(***************************************************************************)
(* Model of the account-method dispatch layer of the wallet bindings:      *)
(*   bindings/core/src/method/account.rs          (enum AccountMethod)     *)
(*   bindings/core/src/method/wallet.rs           (enum WalletMethod)      *)
(*   bindings/core/src/method_handler/account.rs  (the dispatch function)  *)
(*                                                                         *)
(* A dispatch is an async function: every `.await` on the account handle   *)
(* or on its client is a point where the dispatch is suspended and where   *)
(* other dispatches on the same handle may run.  The wrapped engine is     *)
(* outside the layer: what it returns is a nondeterministic input.         *)
(***************************************************************************)
EXTENDS Integers, Sequences, FiniteSets

VARIABLES
  pc,        \* per task: "idle" (no dispatch), "await" (suspended at an .await), "done"
  method,    \* per task: the AccountMethod being dispatched
  calls,     \* per task: the external calls of the current dispatch, in order, with what they returned
  response,  \* per task: the Result<Response> the dispatch returned
  trace,     \* the external calls of the dispatches in flight, in the order they were issued
  message,   \* the command or message to the wallet last serialized or formatted
  rendered   \* its rendering: the format, and the object on the wire or the Debug output

vars == <<pc, method, calls, response, trace, message, rendered>>

(***************************************************************************)
(* Bounds of the model.                                                     *)
(***************************************************************************)
\* identifiers (output ids, transaction ids, token ids, event ids, DTO payloads) are 1..MaxId
MaxId == 2
\* lists carried by a command hold at most MaxLen elements
MaxLen == 2
\* amount strings are all strings of at most MaxAmountLen characters, plus SpecialAmounts
MaxAmountLen == 2

\* the callers that dispatch concurrently on the same account handle
Tasks == {"t1", "t2"}

Ids == 1..MaxId

(***************************************************************************)
(* Rust's Option<T>: None is the empty tuple, Some(x) the one-element one.  *)
(***************************************************************************)
None == <<>>
Some(x) == <<x>>
Option(S) == {None} \cup {Some(x) : x \in S}
IsSome(o) == Len(o) = 1

\* Vec<T> of at most n elements
RECURSIVE VecUpTo(_, _)
VecUpTo(S, n) ==
  IF n = 0 THEN {<<>>}
  ELSE LET shorter == VecUpTo(S, n - 1)
       IN  shorter \cup {Append(v, x) : v \in {w \in shorter : Len(w) = n - 1}, x \in S}

(***************************************************************************)
(* Result<T, E>                                                             *)
(***************************************************************************)
Ok(x) == [ok |-> TRUE, v |-> x]
\* an error value: the error variant, its string payload, and the DTO it rejects (0: none)
Err(type, detail, id) == [ok |-> FALSE, err |-> [type |-> type, detail |-> detail, id |-> id]]

(***************************************************************************)
(* The values a command carries.  The domain types of the wrapped engine    *)
(* are opaque to this layer: an identifier (OutputId, TransactionId,        *)
(* TokenId, ParticipationEventId, Node, an alias, a SyncOptions, ...) is a  *)
(* number of I, and a DTO is an identifier plus whether the engine's        *)
(* conversion accepts it.                                                   *)
(***************************************************************************)
Dto(valid, id) == [valid |-> valid, id |-> id]
Dtos(I) == {Dto(valid, i) : valid \in BOOLEAN, i \in I}

\* a string is the sequence of its characters
AmountChars == {"+", "-", "0", "7"}
U64Max == <<"1","8","4","4","6","7","4","4","0","7","3","7","0","9","5","5","1","6","1","5">>
U64MaxPlusOne == <<"1","8","4","4","6","7","4","4","0","7","3","7","0","9","5","5","1","6","1","6">>
SpecialAmounts == {U64Max, U64MaxPlusOne, <<"0","0","7">>, <<"7","x">>, <<" ","7">>, <<"+","0","7">>}
AmountStrings == VecUpTo(AmountChars, MaxAmountLen) \cup SpecialAmounts

(***************************************************************************)
(* enum AccountMethod: every variant with its fields, the fields drawn from *)
(* identifiers I, lists of at most n elements and amount strings A.         *)
(***************************************************************************)
AccountMethodsOver(I, n, A) ==
  LET D  == Dtos(I)
      TO == Option(D)          \* Option<TransactionOptionsDto>
  IN
       [name : {"Burn"}, burn : D, options : TO]
  \cup [name : {"ConsolidateOutputs"}, force : BOOLEAN, output_consolidation_threshold : Option(I)]
  \cup [name : {"CreateAliasOutput"}, params : Option(D), options : TO]
  \cup [name : {"GenerateAddresses"}, amount : I, options : Option(I)]
  \cup [name : {"GetOutput"}, output_id : I]
  \cup [name : {"GetFoundryOutput"}, token_id : I]
  \cup [name : {"GetOutputsWithAdditionalUnlockConditions"}, outputs_to_claim : I]
  \cup [name : {"GetTransaction"}, transaction_id : I]
  \cup [name : {"GetIncomingTransaction"}, transaction_id : I]
  \cup [name : {"Addresses"}]
  \cup [name : {"AddressesWithUnspentOutputs"}]
  \cup [name : {"Outputs"}, filter_options : Option(I)]
  \cup [name : {"UnspentOutputs"}, filter_options : Option(I)]
  \cup [name : {"IncomingTransactions"}]
  \cup [name : {"Transactions"}]
  \cup [name : {"PendingTransactions"}]
  \cup [name : {"DecreaseNativeTokenSupply"}, token_id : I, melt_amount : D, options : TO]
  \cup [name : {"MinimumRequiredStorageDeposit"}, output : D]
  \cup [name : {"IncreaseNativeTokenSupply"}, token_id : I, mint_amount : D, options : TO]
  \cup [name : {"MintNativeToken"}, params : D, options : TO]
  \cup [name : {"MintNfts"}, params : VecUpTo(D, n), options : TO]
  \cup [name : {"GetBalance"}]
  \cup [name : {"PrepareOutput"}, params : D, transaction_options : TO]
  \cup [name : {"PrepareTransaction"}, outputs : VecUpTo(D, n), options : TO]
  \cup [name : {"PrepareSendAmount"}, params : VecUpTo(I, n), options : TO]
  \cup [name : {"RetryTransactionUntilIncluded"}, transaction_id : I, interval : Option(I), max_attempts : Option(I)]
  \cup [name : {"Sync"}, options : Option(I)]
  \cup [name : {"SendAmount"}, params : VecUpTo(I, n), options : TO]
  \cup [name : {"SendNativeTokens"}, params : VecUpTo(I, n), options : TO]
  \cup [name : {"SendNft"}, params : VecUpTo(I, n), options : TO]
  \cup [name : {"SetAlias"}, alias : I]
  \cup [name : {"SetDefaultSyncOptions"}, options : I]
  \cup [name : {"SendOutputs"}, outputs : VecUpTo(D, n), options : TO]
  \cup [name : {"SignTransactionEssence"}, prepared_transaction_data : D]
  \cup [name : {"SubmitAndStoreTransaction"}, signed_transaction_data : D]
  \cup [name : {"ClaimOutputs"}, output_ids_to_claim : VecUpTo(I, n)]
  \cup [name : {"Vote"}, event_id : Option(I), answers : Option(VecUpTo(I, n))]
  \cup [name : {"StopParticipating"}, event_id : I]
  \cup [name : {"GetVotingPower"}]
  \cup [name : {"GetParticipationOverview"}, event_ids : Option(VecUpTo(I, n))]
  \cup [name : {"IncreaseVotingPower"}, amount : A]
  \cup [name : {"DecreaseVotingPower"}, amount : A]
  \cup [name : {"RegisterParticipationEvents"}, options : I]
  \cup [name : {"DeregisterParticipationEvent"}, event_id : I]
  \cup [name : {"GetParticipationEvent"}, event_id : I]
  \cup [name : {"GetParticipationEventIds"}, node : I, event_type : Option(I)]
  \cup [name : {"GetParticipationEventStatus"}, event_id : I]
  \cup [name : {"GetParticipationEvents"}]

AccountMethod == AccountMethodsOver(Ids, MaxLen, AmountStrings)


(***************************************************************************)
(* The conversions the dispatch applies to a command's fields.  They are    *)
(* functions of the wrapped engine; the layer sees a Result.                *)
(***************************************************************************)
\* X::try_from(&dto) / X::try_from_dto(&dto)
TryFromDto(kind, d) ==
  IF d.valid THEN Ok([kind |-> kind, id |-> d.id]) ELSE Err("ConversionError", <<kind>>, d.id)

\* Output::try_from_dto(&dto, token_supply), PreparedTransactionData::try_from_dto(&dto, &protocol_parameters)
TryFromDtoWith(kind, d, param) ==
  IF d.valid THEN Ok([kind |-> kind, id |-> d.id, with |-> param])
  ELSE Err("ConversionError", <<kind>>, d.id)

\* mutant: an option that does not convert is dropped (.ok().flatten()) instead of failing the dispatch
MapTranspose_Lenient(kind, o) ==
  IF IsSome(o)
  THEN LET r == TryFromDto(kind, o[1]) IN IF r.ok THEN Ok(Some(r.v)) ELSE Ok(None)
  ELSE Ok(None)

\* mutant: an absent option is replaced by a default value (unwrap_or_default)
MapTranspose_Default(kind, o) ==
  IF IsSome(o)
  THEN LET r == TryFromDto(kind, o[1]) IN IF r.ok THEN Ok(Some(r.v)) ELSE r
  ELSE Ok(Some([kind |-> kind, id |-> 0]))

\* options.as_ref().map(X::try_from_dto).transpose()
MapTranspose(kind, o) ==
  IF IsSome(o)
  THEN LET r == TryFromDto(kind, o[1]) IN IF r.ok THEN Ok(Some(r.v)) ELSE r
  ELSE Ok(None)

\* U256::try_from(&amount).map_err(|_| Error::InvalidField(field))
U256TryFrom(amount, field) ==
  IF amount.valid THEN Ok([kind |-> "U256", id |-> amount.id])
  ELSE Err("block::Error::InvalidField", <<field>>, 0)

\* mutant: every element is converted and the error of the last one that fails is returned
CollectResults_LastFailure(rs) ==
  IF \A i \in 1..Len(rs) : rs[i].ok
  THEN Ok([i \in 1..Len(rs) |-> rs[i].v])
  ELSE rs[CHOOSE i \in 1..Len(rs) : ~rs[i].ok /\ \A j \in (i + 1)..Len(rs) : rs[j].ok]

\* list.iter().map(f).collect::<Result<Vec<_>>>(): the conversions in list order, or the
\* error of the first element that fails
CollectResults(rs) ==
  IF \A i \in 1..Len(rs) : rs[i].ok
  THEN Ok([i \in 1..Len(rs) |-> rs[i].v])
  ELSE rs[CHOOSE i \in 1..Len(rs) : ~rs[i].ok /\ \A j \in 1..(i - 1) : rs[j].ok]

\* a field handed over as it is
Pass(x) == Ok(x)

\* T::from(&x), the DTO of an engine value
From(kind, x) == [kind |-> kind, from |-> x]
MapOption(kind, o) == IF IsSome(o) THEN Some(From(kind, o[1])) ELSE None
MapVec(kind, xs) == [i \in 1..Len(xs) |-> From(kind, xs[i])]

(***************************************************************************)
(* What one poll of the dispatch future ends with: it is suspended at an    *)
(* external call, or it has returned.                                       *)
(***************************************************************************)
Await(target, op, args) == [done |-> FALSE, call |-> [target |-> target, op |-> op, args |-> args]]
Return(result) == [done |-> TRUE, result |-> result]
Response(variant, data) == Ok([variant |-> variant, data |-> data])

\* the arguments of a call are evaluated left to right, each with `?`, before the call is made
CallWith(target, op, args) ==
  LET all == CollectResults(args)
  IN  IF all.ok THEN Await(target, op, all.v) ELSE Return(all)

(***************************************************************************)
(* What the wrapped engine may return to a call.  Operations whose Rust     *)
(* type is a Result may fail; get_output, get_transaction,                  *)
(* get_incoming_transaction return an Option and incoming_transactions,     *)
(* transactions, pending_transactions a Vec, and cannot.                    *)
(***************************************************************************)
OptionOps == {"get_output", "get_transaction", "get_incoming_transaction"}
VecOps == {"incoming_transactions", "transactions", "pending_transactions"}
UnitOps == {"set_alias", "set_default_sync_options", "deregister_participation_event"}
VecResultOps == {"outputs", "unspent_outputs"}

EngineError(call) ==
  Err(IF call.target = "client" THEN "client::Error" ELSE "wallet::Error", <<call.op>>, 0)

Returns(call, I) ==
  IF call.op \in OptionOps THEN {Ok(o) : o \in Option(I)}
  ELSE IF call.op \in VecOps THEN {Ok(v) : v \in VecUpTo(I, 1)}
  ELSE IF call.op \in UnitOps THEN {EngineError(call), Ok(<<>>)}
  ELSE IF call.op \in VecResultOps THEN {EngineError(call)} \cup {Ok(v) : v \in VecUpTo(I, 1)}
  ELSE {EngineError(call)} \cup {Ok(i) : i \in I}


(***************************************************************************)
(* The arms of `match method` in call_account_method_internal.  Each is the *)
(* arm resumed with `rets`, the results of the external calls it has        *)
(* awaited so far: it runs up to its next .await or to its return.          *)
(*   Question(r, rest) is `r?` followed by the rest of the arm.             *)
(***************************************************************************)
Question(r, rest) == IF r.ok THEN rest ELSE Return(r)

TransactionOptions(o) == MapTranspose("TransactionOptions", o)
SentTransaction(r) == Question(r, Return(Response("SentTransaction", From("TransactionDto", r.v))))

Burn(m, rets) ==
  IF Len(rets) = 0
  THEN CallWith("account", "burn", <<TryFromDto("Burn", m.burn), TransactionOptions(m.options)>>)
  ELSE SentTransaction(rets[1])

ConsolidateOutputs(m, rets) ==
  IF Len(rets) = 0
  THEN CallWith("account", "consolidate_outputs", <<Pass(m.force), Pass(m.output_consolidation_threshold)>>)
  ELSE SentTransaction(rets[1])

CreateAliasOutput(m, rets) ==
  IF Len(rets) = 0
  THEN CallWith("account", "create_alias_output",
                <<MapTranspose("CreateAliasParams", m.params), TransactionOptions(m.options)>>)
  ELSE SentTransaction(rets[1])

GenerateAddresses(m, rets) ==
  IF Len(rets) = 0
  THEN CallWith("account", "generate_addresses", <<Pass(m.amount), Pass(m.options)>>)
  ELSE Question(rets[1], Return(Response("GeneratedAddress", rets[1].v)))

GetOutputsWithAdditionalUnlockConditions(m, rets) ==
  IF Len(rets) = 0
  THEN CallWith("account", "get_unlockable_outputs_with_additional_unlock_conditions", <<Pass(m.outputs_to_claim)>>)
  ELSE Question(rets[1], Return(Response("OutputIds", rets[1].v)))

GetOutput(m, rets) ==
  IF Len(rets) = 0
  THEN CallWith("account", "get_output", <<Pass(m.output_id)>>)
  ELSE Return(Response("OutputData", MapOption("OutputDataDto", rets[1].v)))

GetFoundryOutput(m, rets) ==
  IF Len(rets) = 0
  THEN CallWith("account", "get_foundry_output", <<Pass(m.token_id)>>)
  ELSE Question(rets[1], Return(Response("Output", From("OutputDto", rets[1].v))))

\* mutant: a transaction that is not found is reported as an error (ok_or)
GetTransaction_NotFound(m, rets) ==
  IF Len(rets) = 0
  THEN CallWith("account", "get_transaction", <<Pass(m.transaction_id)>>)
  ELSE IF IsSome(rets[1].v)
       THEN Return(Response("Transaction", MapOption("TransactionDto", rets[1].v)))
       ELSE Return(Err("wallet::Error", <<"TransactionNotFound">>, m.transaction_id))

GetTransaction(m, rets) ==
  IF Len(rets) = 0
  THEN CallWith("account", "get_transaction", <<Pass(m.transaction_id)>>)
  ELSE Return(Response("Transaction", MapOption("TransactionDto", rets[1].v)))

GetIncomingTransaction(m, rets) ==
  IF Len(rets) = 0
  THEN CallWith("account", "get_incoming_transaction", <<Pass(m.transaction_id)>>)
  ELSE IF IsSome(rets[1].v)
       THEN Return(Response("Transaction", Some(From("TransactionDto", rets[1].v[1]))))
       ELSE Return(Response("Transaction", None))

Addresses(m, rets) ==
  IF Len(rets) = 0
  THEN CallWith("account", "addresses", <<>>)
  ELSE Question(rets[1], Return(Response("Addresses", rets[1].v)))

AddressesWithUnspentOutputs(m, rets) ==
  IF Len(rets) = 0
  THEN CallWith("account", "addresses_with_unspent_outputs", <<>>)
  ELSE Question(rets[1], Return(Response("AddressesWithUnspentOutputs", rets[1].v)))

Outputs(m, rets) ==
  IF Len(rets) = 0
  THEN CallWith("account", "outputs", <<Pass(m.filter_options)>>)
  ELSE Question(rets[1], Return(Response("OutputsData", MapVec("OutputDataDto", rets[1].v))))

UnspentOutputs(m, rets) ==
  IF Len(rets) = 0
  THEN CallWith("account", "unspent_outputs", <<Pass(m.filter_options)>>)
  ELSE Question(rets[1], Return(Response("OutputsData", MapVec("OutputDataDto", rets[1].v))))

IncomingTransactions(m, rets) ==
  IF Len(rets) = 0
  THEN CallWith("account", "incoming_transactions", <<>>)
  ELSE Return(Response("Transactions", MapVec("TransactionDto", rets[1].v)))

Transactions(m, rets) ==
  IF Len(rets) = 0
  THEN CallWith("account", "transactions", <<>>)
  ELSE Return(Response("Transactions", MapVec("TransactionDto", rets[1].v)))

PendingTransactions(m, rets) ==
  IF Len(rets) = 0
  THEN CallWith("account", "pending_transactions", <<>>)
  ELSE Return(Response("Transactions", MapVec("TransactionDto", rets[1].v)))

\* mutant: the options are converted before the amount
DecreaseNativeTokenSupply_OptionsFirst(m, rets) ==
  IF Len(rets) = 0
  THEN LET options == TransactionOptions(m.options)
       IN  Question(options,
             CallWith("account", "decrease_native_token_supply",
                      <<Pass(m.token_id), U256TryFrom(m.melt_amount, "melt_amount"), options>>))
  ELSE SentTransaction(rets[1])

DecreaseNativeTokenSupply(m, rets) ==
  IF Len(rets) = 0
  THEN CallWith("account", "decrease_native_token_supply",
                <<Pass(m.token_id), U256TryFrom(m.melt_amount, "melt_amount"), TransactionOptions(m.options)>>)
  ELSE SentTransaction(rets[1])

\* mutant: the arm of DecreaseNativeTokenSupply copied without changing the response
IncreaseNativeTokenSupply_SentTransaction(m, rets) ==
  IF Len(rets) = 0
  THEN CallWith("account", "increase_native_token_supply",
                <<Pass(m.token_id), U256TryFrom(m.mint_amount, "mint_amount"), TransactionOptions(m.options)>>)
  ELSE SentTransaction(rets[1])

IncreaseNativeTokenSupply(m, rets) ==
  IF Len(rets) = 0
  THEN CallWith("account", "increase_native_token_supply",
                <<Pass(m.token_id), U256TryFrom(m.mint_amount, "mint_amount"), TransactionOptions(m.options)>>)
  ELSE Question(rets[1], Return(Response("MintTokenTransaction", From("MintTokenTransactionDto", rets[1].v))))

MintNativeToken(m, rets) ==
  IF Len(rets) = 0
  THEN CallWith("account", "mint_native_token",
                <<TryFromDto("MintNativeTokenParams", m.params), TransactionOptions(m.options)>>)
  ELSE Question(rets[1], Return(Response("MintTokenTransaction", From("MintTokenTransactionDto", rets[1].v))))

DigitChars == <<"0", "1", "2", "3", "4", "5", "6", "7", "8", "9">>
IsDigit(c) == \E i \in 1..Len(DigitChars) : DigitChars[i] = c
DigitValue(c) == (CHOOSE i \in 1..Len(DigitChars) : DigitChars[i] = c) - 1

\* n.to_string() of a small natural number
RECURSIVE to_string(_)
to_string(n) == IF n < 10 THEN <<DigitChars[n + 1]>> ELSE Append(to_string(n \div 10), DigitChars[(n % 10) + 1])

\* output.rent_cost(&rent_structure), the engine's function: the byte cost of the rent
\* structure times the weighted size of the output, taken as ten bytes per unit of its id
rent_cost(output, rent_structure) == rent_structure * 10 * output.id

\* output.rent_cost(&rent_structure).to_string()
RentCostString(output, rent_structure) == to_string(rent_cost(output, rent_structure))

\* mutant: the rent structure is fetched before the output is converted
MinimumRequiredStorageDeposit_RentFirst(m, rets) ==
  IF Len(rets) = 0
  THEN CallWith("client", "get_token_supply", <<>>)
  ELSE Question(rets[1],
    IF Len(rets) = 1
    THEN CallWith("client", "get_rent_structure", <<>>)
    ELSE Question(rets[2],
           LET output == TryFromDtoWith("Output", m.output, rets[1].v)
           IN  Question(output,
                 Return(Response("MinimumRequiredStorageDeposit", RentCostString(output.v, rets[2].v))))))

MinimumRequiredStorageDeposit(m, rets) ==
  IF Len(rets) = 0
  THEN CallWith("client", "get_token_supply", <<>>)
  ELSE Question(rets[1],
    LET output == TryFromDtoWith("Output", m.output, rets[1].v)
    IN  Question(output,
          IF Len(rets) = 1
          THEN CallWith("client", "get_rent_structure", <<>>)
          ELSE Question(rets[2],
                 Return(Response("MinimumRequiredStorageDeposit", RentCostString(output.v, rets[2].v))))))

MintNfts(m, rets) ==
  IF Len(rets) = 0
  THEN CallWith("account", "mint_nfts",
                <<CollectResults([i \in 1..Len(m.params) |-> TryFromDto("MintNftParams", m.params[i])]),
                  TransactionOptions(m.options)>>)
  ELSE SentTransaction(rets[1])

\* mutant: a balance another dispatch has just produced is returned instead of asking the engine
GetBalance_Cached(m, rets) ==
  IF Len(rets) = 0
  THEN IF \E u \in Tasks : pc[u] = "done" /\ method[u].name = "GetBalance" /\ response[u].ok
       THEN Return(response[CHOOSE u \in Tasks : pc[u] = "done" /\ method[u].name = "GetBalance" /\ response[u].ok])
       ELSE CallWith("account", "balance", <<>>)
  ELSE Question(rets[1], Return(Response("Balance", From("AccountBalanceDto", rets[1].v))))

GetBalance(m, rets) ==
  IF Len(rets) = 0
  THEN CallWith("account", "balance", <<>>)
  ELSE Question(rets[1], Return(Response("Balance", From("AccountBalanceDto", rets[1].v))))

PrepareOutput(m, rets) ==
  IF Len(rets) = 0
  THEN CallWith("account", "prepare_output",
                <<TryFromDto("OutputParams", m.params), TransactionOptions(m.transaction_options)>>)
  ELSE Question(rets[1], Return(Response("Output", From("OutputDto", rets[1].v))))

PrepareSendAmount(m, rets) ==
  IF Len(rets) = 0
  THEN CallWith("account", "prepare_send_amount", <<Pass(m.params), TransactionOptions(m.options)>>)
  ELSE Question(rets[1], Return(Response("PreparedTransaction", From("PreparedTransactionDataDto", rets[1].v))))

\* mutant: the options are converted before the token supply is fetched
PrepareTransaction_ConvertFirst(m, rets) ==
  LET options == TransactionOptions(m.options)
  IN  Question(options,
        IF Len(rets) = 0
        THEN CallWith("client", "get_token_supply", <<>>)
        ELSE Question(rets[1],
          IF Len(rets) = 1
          THEN CallWith("account", "prepare_transaction",
                 <<CollectResults([i \in 1..Len(m.outputs) |-> TryFromDtoWith("Output", m.outputs[i], rets[1].v)]),
                   options>>)
          ELSE Question(rets[2],
                 Return(Response("PreparedTransaction", From("PreparedTransactionDataDto", rets[2].v))))))

PrepareTransaction(m, rets) ==
  IF Len(rets) = 0
  THEN CallWith("client", "get_token_supply", <<>>)
  ELSE Question(rets[1],
    IF Len(rets) = 1
    THEN CallWith("account", "prepare_transaction",
           <<CollectResults([i \in 1..Len(m.outputs) |-> TryFromDtoWith("Output", m.outputs[i], rets[1].v)]),
             TransactionOptions(m.options)>>)
    ELSE Question(rets[2],
           Return(Response("PreparedTransaction", From("PreparedTransactionDataDto", rets[2].v)))))

\* mutant: the layer calls the engine again when the call failed
RetryTransactionUntilIncluded_Loop(m, rets) ==
  IF Len(rets) = 0 \/ (Len(rets) = 1 /\ ~rets[1].ok)
  THEN CallWith("account", "retry_transaction_until_included",
                <<Pass(m.transaction_id), Pass(m.interval), Pass(m.max_attempts)>>)
  ELSE Question(rets[Len(rets)], Return(Response("BlockId", rets[Len(rets)].v)))

\* mutant: interval and max_attempts, both Option<u64>, in each other's place
RetryTransactionUntilIncluded_Swapped(m, rets) ==
  IF Len(rets) = 0
  THEN CallWith("account", "retry_transaction_until_included",
                <<Pass(m.transaction_id), Pass(m.max_attempts), Pass(m.interval)>>)
  ELSE Question(rets[1], Return(Response("BlockId", rets[1].v)))

RetryTransactionUntilIncluded(m, rets) ==
  IF Len(rets) = 0
  THEN CallWith("account", "retry_transaction_until_included",
                <<Pass(m.transaction_id), Pass(m.interval), Pass(m.max_attempts)>>)
  ELSE Question(rets[1], Return(Response("BlockId", rets[1].v)))

\* mutant: the synchronisation is repeated until it succeeds
Sync_UntilOk(m, rets) ==
  IF Len(rets) = 0 \/ ~rets[Len(rets)].ok
  THEN CallWith("account", "sync", <<Pass(m.options)>>)
  ELSE Return(Response("Balance", From("AccountBalanceDto", rets[Len(rets)].v)))

Sync(m, rets) ==
  IF Len(rets) = 0
  THEN CallWith("account", "sync", <<Pass(m.options)>>)
  ELSE Question(rets[1], Return(Response("Balance", From("AccountBalanceDto", rets[1].v))))

SendAmount(m, rets) ==
  IF Len(rets) = 0
  THEN CallWith("account", "send_amount", <<Pass(m.params), TransactionOptions(m.options)>>)
  ELSE SentTransaction(rets[1])

SendNativeTokens(m, rets) ==
  IF Len(rets) = 0
  THEN CallWith("account", "send_native_tokens", <<Pass(m.params), TransactionOptions(m.options)>>)
  ELSE SentTransaction(rets[1])

SendNft(m, rets) ==
  IF Len(rets) = 0
  THEN CallWith("account", "send_nft", <<Pass(m.params), TransactionOptions(m.options)>>)
  ELSE SentTransaction(rets[1])

SetAlias(m, rets) ==
  IF Len(rets) = 0
  THEN CallWith("account", "set_alias", <<Pass(m.alias)>>)
  ELSE Question(rets[1], Return(Response("Ok", <<>>)))

SetDefaultSyncOptions(m, rets) ==
  IF Len(rets) = 0
  THEN CallWith("account", "set_default_sync_options", <<Pass(m.options)>>)
  ELSE Question(rets[1], Return(Response("Ok", <<>>)))

\* mutant: the token supply is a constant instead of being fetched from the client
SendOutputs_NoFetch(m, rets) ==
  IF Len(rets) = 0
  THEN CallWith("account", "send",
         <<CollectResults([i \in 1..Len(m.outputs) |-> TryFromDtoWith("Output", m.outputs[i], 0)]),
           TransactionOptions(m.options)>>)
  ELSE SentTransaction(rets[1])

\* mutant: a failed token-supply fetch is replaced by a default (unwrap_or_default) instead of `?`
SendOutputs_DefaultSupply(m, rets) ==
  IF Len(rets) = 0
  THEN CallWith("client", "get_token_supply", <<>>)
  ELSE IF Len(rets) = 1
  THEN LET token_supply == IF rets[1].ok THEN rets[1].v ELSE 0
       IN  CallWith("account", "send",
             <<CollectResults([i \in 1..Len(m.outputs) |-> TryFromDtoWith("Output", m.outputs[i], token_supply)]),
               TransactionOptions(m.options)>>)
  ELSE SentTransaction(rets[2])

SendOutputs(m, rets) ==
  IF Len(rets) = 0
  THEN CallWith("client", "get_token_supply", <<>>)
  ELSE Question(rets[1],
    IF Len(rets) = 1
    THEN CallWith("account", "send",
           <<CollectResults([i \in 1..Len(m.outputs) |-> TryFromDtoWith("Output", m.outputs[i], rets[1].v)]),
             TransactionOptions(m.options)>>)
    ELSE SentTransaction(rets[2]))

SignTransactionEssence(m, rets) ==
  IF Len(rets) = 0
  THEN CallWith("client", "get_protocol_parameters", <<>>)
  ELSE Question(rets[1],
    IF Len(rets) = 1
    THEN CallWith("account", "sign_transaction_essence",
           <<TryFromDtoWith("PreparedTransactionData", m.prepared_transaction_data, rets[1].v)>>)
    ELSE Question(rets[2],
           Return(Response("SignedTransactionData", From("SignedTransactionDataDto", rets[2].v)))))

SubmitAndStoreTransaction(m, rets) ==
  IF Len(rets) = 0
  THEN CallWith("client", "get_protocol_parameters", <<>>)
  ELSE Question(rets[1],
    IF Len(rets) = 1
    THEN CallWith("account", "submit_and_store_transaction",
           <<TryFromDtoWith("SignedTransactionData", m.signed_transaction_data, rets[1].v)>>)
    ELSE SentTransaction(rets[2]))

ClaimOutputs(m, rets) ==
  IF Len(rets) = 0
  THEN CallWith("account", "claim_outputs", <<Pass(m.output_ids_to_claim)>>)
  ELSE SentTransaction(rets[1])


(***************************************************************************)
(* u64::from_str(&amount): an optional leading "+", then decimal digits     *)
(* accumulated left to right with checked arithmetic.  The value is kept as *)
(* its decimal digits without leading zeros, so that 64-bit values fit.     *)
(***************************************************************************)

\* a > b for two digit sequences without leading zeros
GreaterThan(a, b) ==
  \/ Len(a) > Len(b)
  \/ /\ Len(a) = Len(b)
     /\ \E i \in 1..Len(a) :
          /\ DigitValue(a[i]) > DigitValue(b[i])
          /\ \A j \in 1..(i - 1) : a[j] = b[j]

\* result.checked_mul(10) then checked_add(digit)
CheckedMulAdd(result, c) ==
  LET next == IF result = <<"0">> THEN <<c>> ELSE Append(result, c)
  IN  IF GreaterThan(next, U64Max) THEN Err("PosOverflow", <<>>, 0) ELSE Ok(next)

RECURSIVE FromDigits(_, _)
FromDigits(digits, result) ==
  IF Len(digits) = 0 THEN Ok([kind |-> "u64", digits |-> result])
  ELSE IF ~IsDigit(Head(digits)) THEN Err("InvalidDigit", <<>>, 0)
  ELSE LET next == CheckedMulAdd(result, Head(digits))
       IN  IF next.ok THEN FromDigits(Tail(digits), next.v) ELSE next

U64FromStr(src) ==
  IF Len(src) = 0 THEN Err("Empty", <<>>, 0)
  ELSE IF Head(src) \in {"+", "-"} /\ Len(src) = 1 THEN Err("InvalidDigit", <<>>, 0)
  ELSE IF Head(src) = "+" THEN FromDigits(Tail(src), <<"0">>)
  ELSE FromDigits(src, <<"0">>)

\* mutant: an amount that does not parse becomes 0 (unwrap_or_default) instead of an error
ParseAmount_Default(amount) ==
  LET parsed == U64FromStr(amount)
  IN  IF parsed.ok THEN parsed ELSE Ok([kind |-> "u64", digits |-> <<"0">>])

\* u64::from_str(&amount).map_err(|_| iota_sdk::client::Error::InvalidAmount(amount.clone()))
ParseAmount(amount) ==
  LET parsed == U64FromStr(amount)
  IN  IF parsed.ok THEN parsed ELSE Err("client::Error::InvalidAmount", amount, 0)


(***************************************************************************)
(* The arms compiled with the feature "participation".                      *)
(***************************************************************************)
Vote(m, rets) ==
  IF Len(rets) = 0
  THEN CallWith("account", "vote", <<Pass(m.event_id), Pass(m.answers)>>)
  ELSE SentTransaction(rets[1])

StopParticipating(m, rets) ==
  IF Len(rets) = 0
  THEN CallWith("account", "stop_participating", <<Pass(m.event_id)>>)
  ELSE SentTransaction(rets[1])

GetVotingPower(m, rets) ==
  IF Len(rets) = 0
  THEN CallWith("account", "get_voting_power", <<>>)
  ELSE Question(rets[1], Return(Response("VotingPower", to_string(rets[1].v))))

GetParticipationOverview(m, rets) ==
  IF Len(rets) = 0
  THEN CallWith("account", "get_participation_overview", <<Pass(m.event_ids)>>)
  ELSE Question(rets[1], Return(Response("AccountParticipationOverview", rets[1].v)))

IncreaseVotingPower(m, rets) ==
  IF Len(rets) = 0
  THEN CallWith("account", "increase_voting_power", <<ParseAmount(m.amount)>>)
  ELSE SentTransaction(rets[1])

DecreaseVotingPower(m, rets) ==
  IF Len(rets) = 0
  THEN CallWith("account", "decrease_voting_power", <<ParseAmount(m.amount)>>)
  ELSE SentTransaction(rets[1])

RegisterParticipationEvents(m, rets) ==
  IF Len(rets) = 0
  THEN CallWith("account", "register_participation_events", <<Pass(m.options)>>)
  ELSE Question(rets[1], Return(Response("ParticipationEvents", rets[1].v)))

DeregisterParticipationEvent(m, rets) ==
  IF Len(rets) = 0
  THEN CallWith("account", "deregister_participation_event", <<Pass(m.event_id)>>)
  ELSE Question(rets[1], Return(Response("Ok", <<>>)))

GetParticipationEvent(m, rets) ==
  IF Len(rets) = 0
  THEN CallWith("account", "get_participation_event", <<Pass(m.event_id)>>)
  ELSE Question(rets[1], Return(Response("ParticipationEvent", rets[1].v)))

GetParticipationEventIds(m, rets) ==
  IF Len(rets) = 0
  THEN CallWith("account", "get_participation_event_ids", <<Pass(m.node), Pass(m.event_type)>>)
  ELSE Question(rets[1], Return(Response("ParticipationEventIds", rets[1].v)))

GetParticipationEventStatus(m, rets) ==
  IF Len(rets) = 0
  THEN CallWith("account", "get_participation_event_status", <<Pass(m.event_id)>>)
  ELSE Question(rets[1], Return(Response("ParticipationEventStatus", rets[1].v)))

GetParticipationEvents(m, rets) ==
  IF Len(rets) = 0
  THEN CallWith("account", "get_participation_events", <<>>)
  ELSE Question(rets[1], Return(Response("ParticipationEvents", rets[1].v)))

(***************************************************************************)
(* The "Expected response" each variant of AccountMethod documents.         *)
(***************************************************************************)
ExpectedResponse(name) ==
  CASE name \in {"Burn", "ConsolidateOutputs", "CreateAliasOutput", "DecreaseNativeTokenSupply",
                 "MintNfts", "SendAmount", "SendNativeTokens", "SendNft", "SendOutputs",
                 "SubmitAndStoreTransaction", "ClaimOutputs", "Vote", "StopParticipating",
                 "IncreaseVotingPower", "DecreaseVotingPower"} -> "SentTransaction"
    [] name \in {"IncreaseNativeTokenSupply", "MintNativeToken"} -> "MintTokenTransaction"
    [] name \in {"GetBalance", "Sync"} -> "Balance"
    [] name = "GetOutput" -> "OutputData"
    [] name \in {"GetFoundryOutput", "PrepareOutput"} -> "Output"
    [] name \in {"GetTransaction", "GetIncomingTransaction"} -> "Transaction"
    [] name \in {"Transactions", "IncomingTransactions", "PendingTransactions"} -> "Transactions"
    [] name \in {"Outputs", "UnspentOutputs"} -> "OutputsData"
    [] name \in {"PrepareTransaction", "PrepareSendAmount"} -> "PreparedTransaction"
    [] name = "SignTransactionEssence" -> "SignedTransactionData"
    [] name = "RetryTransactionUntilIncluded" -> "BlockId"
    [] name \in {"SetAlias", "SetDefaultSyncOptions", "DeregisterParticipationEvent"} -> "Ok"
    [] name = "GenerateAddresses" -> "GeneratedAddress"
    [] name = "Addresses" -> "Addresses"
    [] name = "AddressesWithUnspentOutputs" -> "AddressesWithUnspentOutputs"
    [] name = "GetOutputsWithAdditionalUnlockConditions" -> "OutputIds"
    [] name = "MinimumRequiredStorageDeposit" -> "MinimumRequiredStorageDeposit"
    [] name = "GetVotingPower" -> "VotingPower"
    [] name = "GetParticipationOverview" -> "AccountParticipationOverview"
    [] name \in {"RegisterParticipationEvents", "GetParticipationEvents"} -> "ParticipationEvents"
    [] name = "GetParticipationEvent" -> "ParticipationEvent"
    [] name = "GetParticipationEventIds" -> "ParticipationEventIds"
    [] name = "GetParticipationEventStatus" -> "ParticipationEventStatus"

(***************************************************************************)
(* call_account_method_internal(account, method), resumed with the results  *)
(* of the external calls awaited so far.                                    *)
(***************************************************************************)
call_account_method_internal(m, rets) ==
  CASE m.name = "Burn" -> Burn(m, rets)
    [] m.name = "ConsolidateOutputs" -> ConsolidateOutputs(m, rets)
    [] m.name = "CreateAliasOutput" -> CreateAliasOutput(m, rets)
    [] m.name = "GenerateAddresses" -> GenerateAddresses(m, rets)
    [] m.name = "GetOutputsWithAdditionalUnlockConditions" -> GetOutputsWithAdditionalUnlockConditions(m, rets)
    [] m.name = "GetOutput" -> GetOutput(m, rets)
    [] m.name = "GetFoundryOutput" -> GetFoundryOutput(m, rets)
    [] m.name = "GetTransaction" -> GetTransaction(m, rets)
    [] m.name = "GetIncomingTransaction" -> GetIncomingTransaction(m, rets)
    [] m.name = "Addresses" -> Addresses(m, rets)
    [] m.name = "AddressesWithUnspentOutputs" -> AddressesWithUnspentOutputs(m, rets)
    [] m.name = "Outputs" -> Outputs(m, rets)
    [] m.name = "UnspentOutputs" -> UnspentOutputs(m, rets)
    [] m.name = "IncomingTransactions" -> IncomingTransactions(m, rets)
    [] m.name = "Transactions" -> Transactions(m, rets)
    [] m.name = "PendingTransactions" -> PendingTransactions(m, rets)
    [] m.name = "DecreaseNativeTokenSupply" -> DecreaseNativeTokenSupply(m, rets)
    [] m.name = "IncreaseNativeTokenSupply" -> IncreaseNativeTokenSupply(m, rets)
    [] m.name = "MintNativeToken" -> MintNativeToken(m, rets)
    [] m.name = "MinimumRequiredStorageDeposit" -> MinimumRequiredStorageDeposit(m, rets)
    [] m.name = "MintNfts" -> MintNfts(m, rets)
    [] m.name = "GetBalance" -> GetBalance(m, rets)
    [] m.name = "PrepareOutput" -> PrepareOutput(m, rets)
    [] m.name = "PrepareSendAmount" -> PrepareSendAmount(m, rets)
    [] m.name = "PrepareTransaction" -> PrepareTransaction(m, rets)
    [] m.name = "RetryTransactionUntilIncluded" -> RetryTransactionUntilIncluded(m, rets)
    [] m.name = "Sync" -> Sync(m, rets)
    [] m.name = "SendAmount" -> SendAmount(m, rets)
    [] m.name = "SendNativeTokens" -> SendNativeTokens(m, rets)
    [] m.name = "SendNft" -> SendNft(m, rets)
    [] m.name = "SetAlias" -> SetAlias(m, rets)
    [] m.name = "SetDefaultSyncOptions" -> SetDefaultSyncOptions(m, rets)
    [] m.name = "SendOutputs" -> SendOutputs(m, rets)
    [] m.name = "SignTransactionEssence" -> SignTransactionEssence(m, rets)
    [] m.name = "SubmitAndStoreTransaction" -> SubmitAndStoreTransaction(m, rets)
    [] m.name = "ClaimOutputs" -> ClaimOutputs(m, rets)
    [] m.name = "Vote" -> Vote(m, rets)
    [] m.name = "StopParticipating" -> StopParticipating(m, rets)
    [] m.name = "GetVotingPower" -> GetVotingPower(m, rets)
    [] m.name = "GetParticipationOverview" -> GetParticipationOverview(m, rets)
    [] m.name = "IncreaseVotingPower" -> IncreaseVotingPower(m, rets)
    [] m.name = "DecreaseVotingPower" -> DecreaseVotingPower(m, rets)
    [] m.name = "RegisterParticipationEvents" -> RegisterParticipationEvents(m, rets)
    [] m.name = "DeregisterParticipationEvent" -> DeregisterParticipationEvent(m, rets)
    [] m.name = "GetParticipationEvent" -> GetParticipationEvent(m, rets)
    [] m.name = "GetParticipationEventIds" -> GetParticipationEventIds(m, rets)
    [] m.name = "GetParticipationEventStatus" -> GetParticipationEventStatus(m, rets)
    [] m.name = "GetParticipationEvents" -> GetParticipationEvents(m, rets)


(***************************************************************************)
(* The state machine.  A caller dispatches a command; the dispatch runs to  *)
(* its first .await; each time the engine returns, it runs to the next      *)
(* .await or to its return; the caller then takes the result.               *)
(***************************************************************************)
NoMethod == [name |-> "none"]
NoResponse == [ok |-> FALSE]
NoRendering == [format |-> "none"]

Init ==
  /\ pc = [t \in Tasks |-> "idle"]
  /\ method = [t \in Tasks |-> NoMethod]
  /\ calls = [t \in Tasks |-> <<>>]
  /\ response = [t \in Tasks |-> NoResponse]
  /\ trace = <<>>
  /\ message = NoMethod
  /\ rendered = NoRendering

\* the results of the calls the dispatch has awaited
Rets(cs) == [i \in 1..Len(cs) |-> cs[i].ret[1]]

\* the dispatch of task t polled with its calls so far cs
Poll(t, m, cs) ==
  LET step == call_account_method_internal(m, Rets(cs))
  IN  /\ IF step.done
         THEN /\ pc' = [pc EXCEPT ![t] = "done"]
              /\ response' = [response EXCEPT ![t] = step.result]
              /\ calls' = [calls EXCEPT ![t] = cs]
              /\ trace' = trace
         ELSE /\ pc' = [pc EXCEPT ![t] = "await"]
              /\ response' = response
              /\ calls' = [calls EXCEPT ![t] = Append(cs, [call |-> step.call, ret |-> None])]
              /\ trace' = Append(trace, [task |-> t, op |-> step.call.op])
      /\ UNCHANGED <<message, rendered>>

\* mutant: the dispatch takes a lock on the account handle for its whole duration
Dispatch_Locked(t, m) ==
  /\ pc[t] = "idle"
  /\ \A u \in Tasks \ {t} : pc[u] = "idle"
  /\ method' = [method EXCEPT ![t] = m]
  /\ Poll(t, m, <<>>)

\* a caller invokes call_account_method_internal(account, m)
Dispatch(t, m) ==
  /\ pc[t] = "idle"
  /\ method' = [method EXCEPT ![t] = m]
  /\ Poll(t, m, <<>>)

PendingCall(t) == calls[t][Len(calls[t])].call

\* the engine returns r to the call task t is suspended at
ExternalReturnWith(t, r) ==
  /\ pc[t] = "await"
  /\ method' = method
  /\ Poll(t, method[t], [calls[t] EXCEPT ![Len(calls[t])].ret = Some(r)])

\* the engine returns, to the call task t is suspended at, one of the results it has for it
ExternalReturn(t, I) ==
  /\ pc[t] = "await"
  /\ \E r \in Returns(PendingCall(t), I) : ExternalReturnWith(t, r)

\* the caller takes the Result<Response>; the dispatch future is dropped
Collect(t) ==
  /\ pc[t] = "done"
  /\ pc' = [pc EXCEPT ![t] = "idle"]
  /\ method' = [method EXCEPT ![t] = NoMethod]
  /\ calls' = [calls EXCEPT ![t] = <<>>]
  /\ response' = [response EXCEPT ![t] = NoResponse]
  /\ trace' = SelectSeq(trace, LAMBDA e : e.task # t)
  /\ UNCHANGED <<message, rendered>>

(***************************************************************************)
(* Spec: one caller dispatching any command, one after the other.           *)
(***************************************************************************)
DispatchAny == \E m \in AccountMethod : Dispatch("t1", m)
EngineReturns == ExternalReturn("t1", Ids)
CollectResponse == Collect("t1")

Next == DispatchAny \/ EngineReturns \/ CollectResponse

Spec == Init /\ [][Next]_vars

\* the dispatch under the assumption that every external call it awaits eventually returns
SpecFair == Spec /\ WF_vars(EngineReturns)

(***************************************************************************)
(* SpecConcurrent: the callers of Tasks dispatching concurrently on the     *)
(* same account handle, with one identifier and lists of at most one        *)
(* element.                                                                 *)
(***************************************************************************)
ConcurrentIds == {1}
ConcurrentAmounts == {<<"7">>, <<"x">>}
ConcurrentMethods == AccountMethodsOver(ConcurrentIds, 1, ConcurrentAmounts)

DispatchConcurrent(t) == \E m \in ConcurrentMethods : Dispatch(t, m)
EngineReturnsConcurrent(t) == ExternalReturn(t, ConcurrentIds)

NextConcurrent ==
  \E t \in Tasks : DispatchConcurrent(t) \/ EngineReturnsConcurrent(t) \/ Collect(t)

SpecConcurrent == Init /\ [][NextConcurrent]_vars

(***************************************************************************)
(* The wire format and the Debug rendering of the commands:                 *)
(*   bindings/core/src/method/account.rs  (serde attributes of AccountMethod) *)
(*   bindings/core/src/method/wallet.rs   (enum WalletMethod)               *)
(*                                                                         *)
(* A name is the sequence of its words and the style that joins them:       *)
(* "pascal" FooBar (a variant in the source), "snake" foo_bar (a field in   *)
(* the source), "camel" fooBar.  A one-word name reads the same in snake    *)
(* and in camel style.                                                      *)
(***************************************************************************)
WireName(style, words) == [style |-> style, words |-> words]

\* a field of a variant: its name in the source, the words of that name, its
\* #[serde(rename = "..")] if it has one, and whether it carries
\* #[derivative(Debug(format_with = "OmittedDebug::omitted_fmt"))]
Field(rust, words, rename, omitted) ==
  [rust |-> rust, words |-> words, rename |-> rename, omitted |-> omitted]

\* a variant: its name in the source, the words of that name, its
\* #[serde(rename_all = "..")] if it has one, and its fields in declaration order
Variant(rust, words, rename_all, fields) ==
  [rust |-> rust, words |-> words, rename_all |-> rename_all, fields |-> fields]

\* #[serde(tag = "name", content = "data", rename_all = "camelCase")]
AccountMethodSerde == [tag |-> "name", content |-> "data", rename_all |-> Some("camel")]

\* #[serde(tag = "cmd", content = "payload", rename_all = "camelCase")]
WalletMethodSerde == [tag |-> "cmd", content |-> "payload", rename_all |-> Some("camel")]

AccountMethodSchema == <<
  Variant("Burn", <<"burn">>, None, <<
      Field("burn", <<"burn">>, None, FALSE),
      Field("options", <<"options">>, None, FALSE)>>),
  Variant("ConsolidateOutputs", <<"consolidate", "outputs">>, Some("camel"), <<
      Field("force", <<"force">>, None, FALSE),
      Field("output_consolidation_threshold", <<"output", "consolidation", "threshold">>, None, FALSE)>>),
  Variant("CreateAliasOutput", <<"create", "alias", "output">>, Some("camel"), <<
      Field("params", <<"params">>, None, FALSE),
      Field("options", <<"options">>, None, FALSE)>>),
  Variant("GenerateAddresses", <<"generate", "addresses">>, None, <<
      Field("amount", <<"amount">>, None, FALSE),
      Field("options", <<"options">>, None, FALSE)>>),
  Variant("GetOutput", <<"get", "output">>, Some("camel"), <<
      Field("output_id", <<"output", "id">>, None, FALSE)>>),
  Variant("GetFoundryOutput", <<"get", "foundry", "output">>, Some("camel"), <<
      Field("token_id", <<"token", "id">>, None, FALSE)>>),
  Variant("GetOutputsWithAdditionalUnlockConditions", <<"get", "outputs", "with", "additional", "unlock", "conditions">>, Some("camel"), <<
      Field("outputs_to_claim", <<"outputs", "to", "claim">>, None, FALSE)>>),
  Variant("GetTransaction", <<"get", "transaction">>, Some("camel"), <<
      Field("transaction_id", <<"transaction", "id">>, None, FALSE)>>),
  Variant("GetIncomingTransaction", <<"get", "incoming", "transaction">>, Some("camel"), <<
      Field("transaction_id", <<"transaction", "id">>, None, FALSE)>>),
  Variant("Addresses", <<"addresses">>, None, <<>>),
  Variant("AddressesWithUnspentOutputs", <<"addresses", "with", "unspent", "outputs">>, None, <<>>),
  Variant("Outputs", <<"outputs">>, Some("camel"), <<
      Field("filter_options", <<"filter", "options">>, None, FALSE)>>),
  Variant("UnspentOutputs", <<"unspent", "outputs">>, Some("camel"), <<
      Field("filter_options", <<"filter", "options">>, None, FALSE)>>),
  Variant("IncomingTransactions", <<"incoming", "transactions">>, None, <<>>),
  Variant("Transactions", <<"transactions">>, None, <<>>),
  Variant("PendingTransactions", <<"pending", "transactions">>, None, <<>>),
  Variant("DecreaseNativeTokenSupply", <<"decrease", "native", "token", "supply">>, Some("camel"), <<
      Field("token_id", <<"token", "id">>, None, FALSE),
      Field("melt_amount", <<"melt", "amount">>, None, FALSE),
      Field("options", <<"options">>, None, FALSE)>>),
  Variant("MinimumRequiredStorageDeposit", <<"minimum", "required", "storage", "deposit">>, None, <<
      Field("output", <<"output">>, None, FALSE)>>),
  Variant("IncreaseNativeTokenSupply", <<"increase", "native", "token", "supply">>, Some("camel"), <<
      Field("token_id", <<"token", "id">>, None, FALSE),
      Field("mint_amount", <<"mint", "amount">>, None, FALSE),
      Field("options", <<"options">>, None, FALSE)>>),
  Variant("MintNativeToken", <<"mint", "native", "token">>, Some("camel"), <<
      Field("params", <<"params">>, None, FALSE),
      Field("options", <<"options">>, None, FALSE)>>),
  Variant("MintNfts", <<"mint", "nfts">>, Some("camel"), <<
      Field("params", <<"params">>, None, FALSE),
      Field("options", <<"options">>, None, FALSE)>>),
  Variant("GetBalance", <<"get", "balance">>, None, <<>>),
  Variant("PrepareOutput", <<"prepare", "output">>, Some("camel"), <<
      Field("params", <<"params">>, None, FALSE),
      Field("transaction_options", <<"transaction", "options">>, None, FALSE)>>),
  Variant("PrepareTransaction", <<"prepare", "transaction">>, None, <<
      Field("outputs", <<"outputs">>, None, FALSE),
      Field("options", <<"options">>, None, FALSE)>>),
  Variant("PrepareSendAmount", <<"prepare", "send", "amount">>, Some("camel"), <<
      Field("params", <<"params">>, None, FALSE),
      Field("options", <<"options">>, None, FALSE)>>),
  Variant("RetryTransactionUntilIncluded", <<"retry", "transaction", "until", "included">>, Some("camel"), <<
      Field("transaction_id", <<"transaction", "id">>, None, FALSE),
      Field("interval", <<"interval">>, None, FALSE),
      Field("max_attempts", <<"max", "attempts">>, None, FALSE)>>),
  Variant("Sync", <<"sync">>, None, <<
      Field("options", <<"options">>, None, FALSE)>>),
  Variant("SendAmount", <<"send", "amount">>, Some("camel"), <<
      Field("params", <<"params">>, None, FALSE),
      Field("options", <<"options">>, None, FALSE)>>),
  Variant("SendNativeTokens", <<"send", "native", "tokens">>, Some("camel"), <<
      Field("params", <<"params">>, None, FALSE),
      Field("options", <<"options">>, None, FALSE)>>),
  Variant("SendNft", <<"send", "nft">>, Some("camel"), <<
      Field("params", <<"params">>, None, FALSE),
      Field("options", <<"options">>, None, FALSE)>>),
  Variant("SetAlias", <<"set", "alias">>, None, <<
      Field("alias", <<"alias">>, None, FALSE)>>),
  Variant("SetDefaultSyncOptions", <<"set", "default", "sync", "options">>, None, <<
      Field("options", <<"options">>, None, FALSE)>>),
  Variant("SendOutputs", <<"send", "outputs">>, None, <<
      Field("outputs", <<"outputs">>, None, FALSE),
      Field("options", <<"options">>, None, FALSE)>>),
  Variant("SignTransactionEssence", <<"sign", "transaction", "essence">>, Some("camel"), <<
      Field("prepared_transaction_data", <<"prepared", "transaction", "data">>, None, FALSE)>>),
  Variant("SubmitAndStoreTransaction", <<"submit", "and", "store", "transaction">>, Some("camel"), <<
      Field("signed_transaction_data", <<"signed", "transaction", "data">>, None, FALSE)>>),
  Variant("ClaimOutputs", <<"claim", "outputs">>, Some("camel"), <<
      Field("output_ids_to_claim", <<"output", "ids", "to", "claim">>, None, FALSE)>>),
  Variant("Vote", <<"vote">>, Some("camel"), <<
      Field("event_id", <<"event", "id">>, None, FALSE),
      Field("answers", <<"answers">>, None, FALSE)>>),
  Variant("StopParticipating", <<"stop", "participating">>, Some("camel"), <<
      Field("event_id", <<"event", "id">>, None, FALSE)>>),
  Variant("GetVotingPower", <<"get", "voting", "power">>, None, <<>>),
  Variant("GetParticipationOverview", <<"get", "participation", "overview">>, Some("camel"), <<
      Field("event_ids", <<"event", "ids">>, None, FALSE)>>),
  Variant("IncreaseVotingPower", <<"increase", "voting", "power">>, None, <<
      Field("amount", <<"amount">>, None, FALSE)>>),
  Variant("DecreaseVotingPower", <<"decrease", "voting", "power">>, None, <<
      Field("amount", <<"amount">>, None, FALSE)>>),
  Variant("RegisterParticipationEvents", <<"register", "participation", "events">>, None, <<
      Field("options", <<"options">>, None, FALSE)>>),
  Variant("DeregisterParticipationEvent", <<"deregister", "participation", "event">>, Some("camel"), <<
      Field("event_id", <<"event", "id">>, None, FALSE)>>),
  Variant("GetParticipationEvent", <<"get", "participation", "event">>, Some("camel"), <<
      Field("event_id", <<"event", "id">>, None, FALSE)>>),
  Variant("GetParticipationEventIds", <<"get", "participation", "event", "ids">>, Some("camel"), <<
      Field("node", <<"node">>, None, FALSE),
      Field("event_type", <<"event", "type">>, None, FALSE)>>),
  Variant("GetParticipationEventStatus", <<"get", "participation", "event", "status">>, Some("camel"), <<
      Field("event_id", <<"event", "id">>, None, FALSE)>>),
  Variant("GetParticipationEvents", <<"get", "participation", "events">>, None, <<>>)>>

WalletMethodSchema == <<
  Variant("CreateAccount", <<"create", "account">>, None, <<
      Field("alias", <<"alias">>, None, FALSE),
      Field("bech32_hrp", <<"bech32", "hrp">>, Some(WireName("camel", <<"bech32", "hrp">>)), FALSE)>>),
  Variant("GetAccount", <<"get", "account">>, None, <<
      Field("account_id", <<"account", "id">>, Some(WireName("camel", <<"account", "id">>)), FALSE)>>),
  Variant("GetAccountIndexes", <<"get", "account", "indexes">>, None, <<>>),
  Variant("GetAccounts", <<"get", "accounts">>, None, <<>>),
  Variant("CallAccountMethod", <<"call", "account", "method">>, None, <<
      Field("account_id", <<"account", "id">>, Some(WireName("camel", <<"account", "id">>)), FALSE),
      Field("method", <<"method">>, None, FALSE)>>),
  Variant("Backup", <<"backup">>, None, <<
      Field("destination", <<"destination">>, None, FALSE),
      Field("password", <<"password">>, None, TRUE)>>),
  Variant("ChangeStrongholdPassword", <<"change", "stronghold", "password">>, None, <<
      Field("current_password", <<"current", "password">>, Some(WireName("camel", <<"current", "password">>)), TRUE),
      Field("new_password", <<"new", "password">>, Some(WireName("camel", <<"new", "password">>)), TRUE)>>),
  Variant("ClearStrongholdPassword", <<"clear", "stronghold", "password">>, None, <<>>),
  Variant("IsStrongholdPasswordAvailable", <<"is", "stronghold", "password", "available">>, None, <<>>),
  Variant("RecoverAccounts", <<"recover", "accounts">>, None, <<
      Field("account_start_index", <<"account", "start", "index">>, Some(WireName("camel", <<"account", "start", "index">>)), FALSE),
      Field("account_gap_limit", <<"account", "gap", "limit">>, Some(WireName("camel", <<"account", "gap", "limit">>)), FALSE),
      Field("address_gap_limit", <<"address", "gap", "limit">>, Some(WireName("camel", <<"address", "gap", "limit">>)), FALSE),
      Field("sync_options", <<"sync", "options">>, Some(WireName("camel", <<"sync", "options">>)), FALSE)>>),
  Variant("RestoreBackup", <<"restore", "backup">>, None, <<
      Field("source", <<"source">>, None, FALSE),
      Field("password", <<"password">>, None, TRUE),
      Field("ignore_if_coin_type_mismatch", <<"ignore", "if", "coin", "type", "mismatch">>, Some(WireName("camel", <<"ignore", "if", "coin", "type", "mismatch">>)), FALSE)>>),
  Variant("RemoveLatestAccount", <<"remove", "latest", "account">>, None, <<>>),
  Variant("SetClientOptions", <<"set", "client", "options">>, None, <<
      Field("client_options", <<"client", "options">>, Some(WireName("camel", <<"client", "options">>)), FALSE)>>),
  Variant("GenerateAddress", <<"generate", "address">>, None, <<
      Field("account_index", <<"account", "index">>, Some(WireName("camel", <<"account", "index">>)), FALSE),
      Field("internal", <<"internal">>, None, FALSE),
      Field("address_index", <<"address", "index">>, Some(WireName("camel", <<"address", "index">>)), FALSE),
      Field("options", <<"options">>, None, FALSE),
      Field("bech32_hrp", <<"bech32", "hrp">>, Some(WireName("camel", <<"bech32", "hrp">>)), FALSE)>>),
  Variant("GetLedgerNanoStatus", <<"get", "ledger", "nano", "status">>, None, <<>>),
  Variant("SetStrongholdPassword", <<"set", "stronghold", "password">>, None, <<
      Field("password", <<"password">>, None, TRUE)>>),
  Variant("SetStrongholdPasswordClearInterval", <<"set", "stronghold", "password", "clear", "interval">>, None, <<
      Field("interval_in_milliseconds", <<"interval", "in", "milliseconds">>, Some(WireName("camel", <<"interval", "in", "milliseconds">>)), FALSE)>>),
  Variant("StoreMnemonic", <<"store", "mnemonic">>, None, <<
      Field("mnemonic", <<"mnemonic">>, None, TRUE)>>),
  Variant("StartBackgroundSync", <<"start", "background", "sync">>, None, <<
      Field("options", <<"options">>, None, FALSE),
      Field("interval_in_milliseconds", <<"interval", "in", "milliseconds">>, Some(WireName("camel", <<"interval", "in", "milliseconds">>)), FALSE)>>),
  Variant("StopBackgroundSync", <<"stop", "background", "sync">>, None, <<>>),
  Variant("EmitTestEvent", <<"emit", "test", "event">>, None, <<
      Field("event", <<"event">>, None, FALSE)>>),
  Variant("ClearListeners", <<"clear", "listeners">>, None, <<
      Field("event_types", <<"event", "types">>, Some(WireName("camel", <<"event", "types">>)), FALSE)>>),
  Variant("UpdateNodeAuth", <<"update", "node", "auth">>, None, <<
      Field("url", <<"url">>, None, FALSE),
      Field("auth", <<"auth">>, None, FALSE)>>)>>

\* the account methods a message to the wallet carries
WireMethods == AccountMethodsOver({1}, 1, {<<"7">>})

\* the messages to the wallet over identifiers I, with the account methods A
WalletMethodsOver(I, A) ==
  [cmd : {"CreateAccount"}, alias : Option(I), bech32_hrp : Option(I)]
  \cup
  [cmd : {"GetAccount"}, account_id : I]
  \cup
  [cmd : {"GetAccountIndexes"}]
  \cup
  [cmd : {"GetAccounts"}]
  \cup
  [cmd : {"CallAccountMethod"}, account_id : I, method : A]
  \cup
  [cmd : {"Backup"}, destination : I, password : I]
  \cup
  [cmd : {"ChangeStrongholdPassword"}, current_password : I, new_password : I]
  \cup
  [cmd : {"ClearStrongholdPassword"}]
  \cup
  [cmd : {"IsStrongholdPasswordAvailable"}]
  \cup
  [cmd : {"RecoverAccounts"}, account_start_index : I, account_gap_limit : I, address_gap_limit : I, sync_options : Option(I)]
  \cup
  [cmd : {"RestoreBackup"}, source : I, password : I, ignore_if_coin_type_mismatch : Option(I)]
  \cup
  [cmd : {"RemoveLatestAccount"}]
  \cup
  [cmd : {"SetClientOptions"}, client_options : I]
  \cup
  [cmd : {"GenerateAddress"}, account_index : I, internal : BOOLEAN, address_index : I, options : Option(I), bech32_hrp : Option(I)]
  \cup
  [cmd : {"GetLedgerNanoStatus"}]
  \cup
  [cmd : {"SetStrongholdPassword"}, password : I]
  \cup
  [cmd : {"SetStrongholdPasswordClearInterval"}, interval_in_milliseconds : Option(I)]
  \cup
  [cmd : {"StoreMnemonic"}, mnemonic : I]
  \cup
  [cmd : {"StartBackgroundSync"}, options : Option(I), interval_in_milliseconds : Option(I)]
  \cup
  [cmd : {"StopBackgroundSync"}]
  \cup
  [cmd : {"EmitTestEvent"}, event : I]
  \cup
  [cmd : {"ClearListeners"}, event_types : VecUpTo(I, 1)]
  \cup
  [cmd : {"UpdateNodeAuth"}, url : I, auth : Option(I)]

WalletMethod == WalletMethodsOver(Ids, WireMethods)

VariantOf(schema, rust) == schema[CHOOSE i \in 1..Len(schema) : schema[i].rust = rust]

\* serde's RenameRule applied to a variant name, resp. to a field name; without a rule the
\* name goes on the wire as it is in the source
apply_to_variant(rename_all, words) ==
  IF IsSome(rename_all) THEN WireName(rename_all[1], words) ELSE WireName("pascal", words)

apply_to_field(rename_all, words) ==
  IF IsSome(rename_all) THEN WireName(rename_all[1], words) ELSE WireName("snake", words)

\* the rename_all of the enum names its variants; it does not reach their fields
VariantWireName(serde, v) == apply_to_variant(serde.rename_all, v.words)

\* mutant: the explicit rename of a field is ignored
FieldWireName_RenameAllOnly(v, f) == apply_to_field(v.rename_all, f.words)

\* a field is named by its own rename, or else by the rename_all of its variant
FieldWireName(v, f) ==
  IF IsSome(f.rename) THEN f.rename[1] ELSE apply_to_field(v.rename_all, f.words)

\* an object on the wire is the sequence of its members
Member(key, value) == [key |-> key, value |-> value]

\* an adjacently tagged enum: the variant under the tag key, and the fields of a
\* struct variant under the content key
SerializeVariant(serde, v, values) ==
  LET tag == Member(WireName("camel", <<serde.tag>>), VariantWireName(serde, v))
      content == Member(WireName("camel", <<serde.content>>),
                        [i \in 1..Len(v.fields) |-> Member(FieldWireName(v, v.fields[i]), values[i])])
  IN  IF Len(v.fields) = 0 THEN <<tag>> ELSE <<tag, content>>

\* #[derive(Serialize)] of AccountMethod
SerializeAccountMethod(m) ==
  LET v == VariantOf(AccountMethodSchema, m.name)
  IN  SerializeVariant(AccountMethodSerde, v, [i \in 1..Len(v.fields) |-> m[v.fields[i].rust]])

\* #[derive(Serialize)] of WalletMethod
SerializeWalletMethod(w) ==
  LET v == VariantOf(WalletMethodSchema, w.cmd)
  IN  SerializeVariant(WalletMethodSerde, v,
        [i \in 1..Len(v.fields) |->
           IF v.fields[i].rust = "method" THEN SerializeAccountMethod(w.method)
           ELSE w[v.fields[i].rust]])

\* the Debug rendering of a field's value
Shown(x) == [omitted |-> FALSE, value |-> Some(x)]

\* OmittedDebug::omitted_fmt: writes a fixed placeholder, whatever the value
omitted_fmt(x) == [omitted |-> TRUE, value |-> None]

\* mutant: a plain #[derive(Debug)], which ignores the format_with of the fields
DebugField_Derived(f, x) == Shown(x)

DebugField(f, x) == IF f.omitted THEN omitted_fmt(x) ELSE Shown(x)

\* #[derivative(Debug)] of WalletMethod: the variant and its fields in declaration order
DebugWalletMethod(w) ==
  LET v == VariantOf(WalletMethodSchema, w.cmd)
  IN  [variant |-> v.rust,
       fields |-> [i \in 1..Len(v.fields) |->
                     [name |-> v.fields[i].rust,
                      text |-> DebugField(v.fields[i], w[v.fields[i].rust])]]]

(***************************************************************************)
(* SpecWire: any command is serialized, any message to the wallet is        *)
(* serialized or formatted with Debug, one value at a time: the rendering   *)
(* is taken before the next value is rendered.                              *)
(***************************************************************************)
Render(msg, format, out) ==
  /\ rendered = NoRendering
  /\ message' = msg
  /\ rendered' = [format |-> format, out |-> out]
  /\ UNCHANGED <<pc, method, calls, response, trace>>

SerializeAccount == \E m \in AccountMethod : Render(m, "AccountMethod json", SerializeAccountMethod(m))
SerializeWallet == \E w \in WalletMethod : Render(w, "WalletMethod json", SerializeWalletMethod(w))
DebugWallet == \E w \in WalletMethod : Render(w, "WalletMethod debug", DebugWalletMethod(w))

\* the rendering is written out (sent, logged) and dropped
TakeRendering ==
  /\ rendered # NoRendering
  /\ message' = NoMethod
  /\ rendered' = NoRendering
  /\ UNCHANGED <<pc, method, calls, response, trace>>

NextWire == SerializeAccount \/ SerializeWallet \/ DebugWallet \/ TakeRendering

SpecWire == Init /\ [][NextWire]_vars


(***************************************************************************)
(*                              PROPERTIES                                  *)
(***************************************************************************)
InFlight(t) == pc[t] # "idle"
Returned(c) == IsSome(c.ret)
FirstCall(t) == calls[t][1].call

\* the variants whose arm awaits a client fetch before its second external call
TwoCallMethods ==
  {"MinimumRequiredStorageDeposit", "PrepareTransaction", "SendOutputs",
   "SignTransactionEssence", "SubmitAndStoreTransaction"}
ExternalCallsOnSuccess(name) == IF name \in TwoCallMethods THEN 2 ELSE 1
\* the errors the dispatch makes itself, converting a field, rather than receives from a call
ConversionErrors == {"ConversionError", "block::Error::InvalidField", "client::Error::InvalidAmount"}

(* C1, as stated: every dispatch that has produced its result has made      *)
(* exactly one external call, whatever the variant.                         *)
C1_ExactlyOneExternalCall ==
  \A t \in Tasks : pc[t] = "done" => Len(calls[t]) = 1

(* C1, amended: a dispatch that returns a Response has made exactly one     *)
(* external call, or exactly two for MinimumRequiredStorageDeposit,         *)
(* PrepareTransaction, SendOutputs, SignTransactionEssence and              *)
(* SubmitAndStoreTransaction; a dispatch that returns an error has made at  *)
(* most that many: one fewer when it is the conversion of a field that      *)
(* failed (none, for a one-call variant).                                   *)
C1_ExternalCallCount ==
  \A t \in Tasks :
    /\ InFlight(t) => Len(calls[t]) <= ExternalCallsOnSuccess(method[t].name)
    /\ (pc[t] = "done" /\ response[t].ok) =>
         Len(calls[t]) = ExternalCallsOnSuccess(method[t].name)
    /\ (pc[t] = "done" /\ ~response[t].ok /\ response[t].err.type \in ConversionErrors) =>
         Len(calls[t]) = ExternalCallsOnSuccess(method[t].name) - 1

C1_Witness ==
  /\ pc["t1"] = "done" /\ method["t1"].name = "SendOutputs" /\ response["t1"].ok
  /\ Len(calls["t1"]) = 2
  /\ calls["t1"][1].call.op = "get_token_supply" /\ calls["t1"][2].call.op = "send"

(* C2: once an external call of a dispatch has returned an error, the       *)
(* dispatch has returned an error, not a Response, and that call is the     *)
(* last one the dispatch made.                                              *)
C2_ErrorPropagated ==
  \A t \in Tasks : \A i \in 1..Len(calls[t]) :
    (Returned(calls[t][i]) /\ ~calls[t][i].ret[1].ok) =>
       /\ pc[t] = "done"
       /\ ~response[t].ok
       /\ i = Len(calls[t])

C2_Witness ==
  /\ pc["t1"] = "done" /\ method["t1"].name = "SendOutputs"
  /\ Len(method["t1"].outputs) > 0
  /\ Len(calls["t1"]) = 1 /\ ~calls["t1"][1].ret[1].ok
  /\ ~response["t1"].ok

(* C3: a dispatch that succeeds returns the Response variant documented as  *)
(* "Expected response" of its AccountMethod variant.                        *)
C3_ExpectedResponseVariant ==
  \A t \in Tasks :
    (pc[t] = "done" /\ response[t].ok) =>
       response[t].v.variant = ExpectedResponse(method[t].name)

C3_Witness ==
  /\ pc["t1"] = "done" /\ response["t1"].ok
  /\ method["t1"].name = "IncreaseNativeTokenSupply"
  /\ response["t1"].v.variant = "MintTokenTransaction"

(* C4: within one dispatch no external operation is invoked twice, whether  *)
(* it succeeded or failed; RetryTransactionUntilIncluded makes a single     *)
(* retry_transaction_until_included call, with the command's interval and   *)
(* max_attempts.                                                            *)
C4_NoRetry ==
  \A t \in Tasks :
    /\ \A i, j \in 1..Len(calls[t]) : i # j => calls[t][i].call.op # calls[t][j].call.op
    /\ (InFlight(t) /\ method[t].name = "RetryTransactionUntilIncluded") =>
         /\ Len(calls[t]) = 1
         /\ FirstCall(t).op = "retry_transaction_until_included"
         /\ FirstCall(t).args[2] = method[t].interval
         /\ FirstCall(t).args[3] = method[t].max_attempts

C4_Witness ==
  /\ pc["t1"] = "done" /\ method["t1"].name = "RetryTransactionUntilIncluded"
  /\ IsSome(method["t1"].max_attempts)
  /\ Len(calls["t1"]) = 1 /\ ~calls["t1"][1].ret[1].ok
  /\ ~response["t1"].ok

VotingPowerOp(name) ==
  IF name = "IncreaseVotingPower" THEN "increase_voting_power" ELSE "decrease_voting_power"

\* the digits of s after an optional "+", none of them missing, and their value within 64 bits
IsU64Literal(s) ==
  LET d == IF Len(s) > 0 /\ s[1] = "+" THEN Tail(s) ELSE s
      significant == {i \in 1..Len(d) : d[i] # "0"}
      first == CHOOSE i \in significant : \A j \in significant : i <= j
  IN  /\ Len(d) > 0
      /\ \A i \in 1..Len(d) : IsDigit(d[i])
      /\ significant # {} => ~GreaterThan(SubSeq(d, first, Len(d)), U64Max)

(* C5: IncreaseVotingPower and DecreaseVotingPower with an amount that is   *)
(* no unsigned 64-bit decimal return client::Error::InvalidAmount carrying  *)
(* the string as supplied, without calling the engine; otherwise the engine *)
(* is called once, with the parsed value.                                   *)
C5_InvalidAmount ==
  \A t \in Tasks :
    (InFlight(t) /\ method[t].name \in {"IncreaseVotingPower", "DecreaseVotingPower"}) =>
      LET amount == method[t].amount
          parsed == U64FromStr(amount)
      IN  /\ parsed.ok <=> IsU64Literal(amount)
          /\ amount \in {U64MaxPlusOne, <<>>, <<"+">>, <<"-">>, <<"-", "7">>, <<"7", "x">>, <<" ", "7">>}
               => ~parsed.ok
          /\ amount = U64Max => (parsed.ok /\ parsed.v.digits = U64Max)
          /\ amount \in {<<"+", "0", "7">>, <<"0", "0", "7">>, <<"7">>}
               => (parsed.ok /\ parsed.v.digits = <<"7">>)
          /\ IF parsed.ok
             THEN /\ Len(calls[t]) = 1
                  /\ FirstCall(t).op = VotingPowerOp(method[t].name)
                  /\ FirstCall(t).target = "account"
                  /\ FirstCall(t).args = <<parsed.v>>
             ELSE /\ pc[t] = "done"
                  /\ Len(calls[t]) = 0
                  /\ response[t] = Err("client::Error::InvalidAmount", amount, 0)

C5_Witness ==
  /\ pc["t1"] = "done" /\ method["t1"].name = "DecreaseVotingPower"
  /\ method["t1"].amount = U64MaxPlusOne
  /\ Len(calls["t1"]) = 0
  /\ response["t1"] = Err("client::Error::InvalidAmount", U64MaxPlusOne, 0)

\* what the engine call of each variant must have received for the fields it forwards as they are
ForwardedUnchanged(m, args) ==
  CASE m.name = "ConsolidateOutputs" -> args = <<m.force, m.output_consolidation_threshold>>
    [] m.name = "GenerateAddresses" -> args = <<m.amount, m.options>>
    [] m.name = "GetOutputsWithAdditionalUnlockConditions" -> args = <<m.outputs_to_claim>>
    [] m.name = "GetOutput" -> args = <<m.output_id>>
    [] m.name = "GetFoundryOutput" -> args = <<m.token_id>>
    [] m.name \in {"GetTransaction", "GetIncomingTransaction"} -> args = <<m.transaction_id>>
    [] m.name \in {"Outputs", "UnspentOutputs"} -> args = <<m.filter_options>>
    [] m.name \in {"DecreaseNativeTokenSupply", "IncreaseNativeTokenSupply"} ->
         Len(args) = 3 /\ args[1] = m.token_id
    [] m.name \in {"PrepareSendAmount", "SendAmount", "SendNativeTokens", "SendNft"} ->
         Len(args) = 2 /\ args[1] = m.params
    [] m.name = "RetryTransactionUntilIncluded" -> args = <<m.transaction_id, m.interval, m.max_attempts>>
    [] m.name \in {"Sync", "SetDefaultSyncOptions", "RegisterParticipationEvents"} -> args = <<m.options>>
    [] m.name = "SetAlias" -> args = <<m.alias>>
    [] m.name = "ClaimOutputs" -> args = <<m.output_ids_to_claim>>
    [] m.name = "Vote" -> args = <<m.event_id, m.answers>>
    [] m.name \in {"StopParticipating", "DeregisterParticipationEvent", "GetParticipationEvent",
                   "GetParticipationEventStatus"} -> args = <<m.event_id>>
    [] m.name = "GetParticipationOverview" -> args = <<m.event_ids>>
    [] m.name = "GetParticipationEventIds" -> args = <<m.node, m.event_type>>
    [] OTHER -> TRUE

\* the variants none of whose fields is converted: their call is always made
ForwardedWhole ==
  {"ConsolidateOutputs", "GenerateAddresses", "GetOutputsWithAdditionalUnlockConditions", "GetOutput",
   "GetFoundryOutput", "GetTransaction", "GetIncomingTransaction", "Outputs", "UnspentOutputs",
   "RetryTransactionUntilIncluded", "Sync", "SetDefaultSyncOptions", "RegisterParticipationEvents",
   "SetAlias", "ClaimOutputs", "Vote", "StopParticipating", "DeregisterParticipationEvent",
   "GetParticipationEvent", "GetParticipationEventStatus", "GetParticipationOverview",
   "GetParticipationEventIds"}

(* C6: the fields of a command that need no conversion are the arguments of *)
(* the engine call, each in its own place and with its own value.           *)
C6_FieldsForwardedUnchanged ==
  \A t \in Tasks :
    InFlight(t) =>
      /\ method[t].name \in ForwardedWhole => Len(calls[t]) = 1
      /\ Len(calls[t]) >= 1 => ForwardedUnchanged(method[t], FirstCall(t).args)

C6_Witness ==
  /\ pc["t1"] = "await" /\ method["t1"].name = "RetryTransactionUntilIncluded"
  /\ method["t1"].interval = Some(1) /\ method["t1"].max_attempts = Some(2)
  /\ FirstCall("t1").args = <<method["t1"].transaction_id, Some(1), Some(2)>>

(* C7: a dispatch never waits for another dispatch on the same handle:      *)
(* whatever the other callers are doing, an idle caller can dispatch any    *)
(* command, a suspended dispatch takes any result the engine returns, and a *)
(* finished one hands over its result.  (Checked under SpecConcurrent.)     *)
C7_NoDispatchWaits ==
  \A t \in Tasks :
    /\ pc[t] = "idle" => \A m \in ConcurrentMethods : ENABLED Dispatch(t, m)
    /\ pc[t] = "await" =>
         \A r \in Returns(PendingCall(t), ConcurrentIds) : ENABLED ExternalReturnWith(t, r)
    /\ pc[t] = "done" => ENABLED Collect(t)

\* the two calls of SendOutputs separated by a call of another dispatch, whose own two calls
\* (MinimumRequiredStorageDeposit) are separated in turn
C7_Witness ==
  /\ Len(trace) = 4
  /\ trace[1] = [task |-> "t1", op |-> "get_token_supply"]
  /\ trace[2] = [task |-> "t2", op |-> "get_token_supply"]
  /\ trace[3] = [task |-> "t1", op |-> "send"]
  /\ trace[4] = [task |-> "t2", op |-> "get_rent_structure"]
  /\ method["t1"].name = "SendOutputs" /\ method["t2"].name = "MinimumRequiredStorageDeposit"

\* the first n external calls of the dispatches of t and u have returned, and returned the same
SameReturns(t, u, n) ==
  \A i \in 1..n :
    /\ Returned(calls[t][i]) /\ Returned(calls[u][i])
    /\ calls[t][i].ret = calls[u][i].ret

OptionConverts(o) == ~IsSome(o) \/ o[1].valid
AllConvert(list) == \A i \in 1..Len(list) : list[i].valid

\* every field of the command that the dispatch converts does convert
FieldsConvert(m) ==
  CASE m.name = "Burn" -> m.burn.valid /\ OptionConverts(m.options)
    [] m.name = "CreateAliasOutput" -> OptionConverts(m.params) /\ OptionConverts(m.options)
    [] m.name = "DecreaseNativeTokenSupply" -> m.melt_amount.valid /\ OptionConverts(m.options)
    [] m.name = "IncreaseNativeTokenSupply" -> m.mint_amount.valid /\ OptionConverts(m.options)
    [] m.name = "MintNativeToken" -> m.params.valid /\ OptionConverts(m.options)
    [] m.name = "MintNfts" -> AllConvert(m.params) /\ OptionConverts(m.options)
    [] m.name = "PrepareOutput" -> m.params.valid /\ OptionConverts(m.transaction_options)
    [] m.name \in {"PrepareSendAmount", "SendAmount", "SendNativeTokens", "SendNft"} ->
         OptionConverts(m.options)
    [] m.name \in {"PrepareTransaction", "SendOutputs"} -> AllConvert(m.outputs) /\ OptionConverts(m.options)
    [] m.name = "MinimumRequiredStorageDeposit" -> m.output.valid
    [] m.name = "SignTransactionEssence" -> m.prepared_transaction_data.valid
    [] m.name = "SubmitAndStoreTransaction" -> m.signed_transaction_data.valid
    [] m.name \in {"IncreaseVotingPower", "DecreaseVotingPower"} -> IsU64Literal(m.amount)
    [] OTHER -> TRUE

\* the calls of the dispatch of t that are operations on the account (not on its client)
AccountCalls(t) == {i \in 1..Len(calls[t]) : calls[t][i].call.target = "account"}

(* C12: when the conversion of a field of the command fails, the dispatch   *)
(* returns an error and the account operation is not invoked: an account    *)
(* operation is invoked only once every field has been converted.           *)
C12_NoAccountCallAfterFailedConversion ==
  \A t \in Tasks :
    InFlight(t) =>
      /\ AccountCalls(t) # {} => FieldsConvert(method[t])
      /\ (~FieldsConvert(method[t]) /\ method[t].name \notin TwoCallMethods) =>
           (pc[t] = "done" /\ ~response[t].ok /\ Len(calls[t]) = 0)
      /\ (~FieldsConvert(method[t]) /\ pc[t] = "done") => ~response[t].ok

C12_Witness ==
  /\ pc["t1"] = "done" /\ method["t1"].name = "SendAmount"
  /\ Len(method["t1"].params) = 2
  /\ IsSome(method["t1"].options) /\ ~method["t1"].options[1].valid
  /\ Len(calls["t1"]) = 0 /\ ~response["t1"].ok

\* the field of the command that holds the amount of a supply change
SupplyAmountField(name) ==
  IF name = "DecreaseNativeTokenSupply" THEN "melt_amount" ELSE "mint_amount"

(* C13: when the amount of DecreaseNativeTokenSupply (melt_amount) or of    *)
(* IncreaseNativeTokenSupply (mint_amount) does not convert, the dispatch   *)
(* returns the block error InvalidField naming that field, whether or not   *)
(* the options convert, and the engine is not called.                       *)
C13_InvalidAmountField ==
  \A t \in Tasks :
    (/\ InFlight(t)
     /\ method[t].name \in {"DecreaseNativeTokenSupply", "IncreaseNativeTokenSupply"}
     /\ ~method[t][SupplyAmountField(method[t].name)].valid) =>
      /\ pc[t] = "done"
      /\ Len(calls[t]) = 0
      /\ response[t] = [ok |-> FALSE,
                        err |-> [type |-> "block::Error::InvalidField",
                                 detail |-> <<SupplyAmountField(method[t].name)>>,
                                 id |-> 0]]

C13_Witness ==
  /\ pc["t1"] = "done" /\ method["t1"].name = "DecreaseNativeTokenSupply"
  /\ ~method["t1"].melt_amount.valid
  /\ IsSome(method["t1"].options) /\ ~method["t1"].options[1].valid
  /\ ~response["t1"].ok /\ response["t1"].err.detail = <<"melt_amount">>

\* the optional fields of a command that the dispatch converts: the field, the type it is
\* converted to, and the position of the converted value among the arguments of the account call
OptionalField(field, kind, pos) == [field |-> field, kind |-> kind, pos |-> pos]

OptionalFields(name) ==
  CASE name \in {"Burn", "MintNativeToken", "MintNfts", "PrepareSendAmount", "PrepareTransaction",
                 "SendAmount", "SendNativeTokens", "SendNft", "SendOutputs"} ->
         {OptionalField("options", "TransactionOptions", 2)}
    [] name = "CreateAliasOutput" ->
         {OptionalField("params", "CreateAliasParams", 1), OptionalField("options", "TransactionOptions", 2)}
    [] name \in {"DecreaseNativeTokenSupply", "IncreaseNativeTokenSupply"} ->
         {OptionalField("options", "TransactionOptions", 3)}
    [] name = "PrepareOutput" -> {OptionalField("transaction_options", "TransactionOptions", 2)}
    [] OTHER -> {}

(* C14: an absent optional field (options, CreateAliasOutput's params,      *)
(* PrepareOutput's transaction_options) reaches the account operation as an *)
(* absent value and is never the reason of a failed dispatch; a present one *)
(* reaches it as the converted value, never as an absent one.               *)
C14_OptionalFieldForwarded ==
  \A t \in Tasks :
    InFlight(t) =>
      \A f \in OptionalFields(method[t].name) :
        LET o == method[t][f.field]
        IN  /\ \A i \in AccountCalls(t) :
                 calls[t][i].call.args[f.pos] =
                   IF IsSome(o) THEN Some([kind |-> f.kind, id |-> o[1].id]) ELSE None
            /\ (~IsSome(o) /\ pc[t] = "done" /\ ~response[t].ok) =>
                 ~(response[t].err.type = "ConversionError" /\ response[t].err.detail = <<f.kind>>)
            /\ (~IsSome(o) /\ FieldsConvert(method[t]) /\ method[t].name \notin TwoCallMethods) =>
                 Len(calls[t]) = 1

C14_Witness ==
  /\ pc["t1"] = "await" /\ method["t1"].name = "CreateAliasOutput"
  /\ ~IsSome(method["t1"].params) /\ IsSome(method["t1"].options)
  /\ calls["t1"][1].call.args[1] = None
  /\ IsSome(calls["t1"][1].call.args[2])

\* the commands that look up one item of the account, and those that list its transactions
LookupMethods == {"GetOutput", "GetTransaction", "GetIncomingTransaction"}
ListingMethods == {"Transactions", "IncomingTransactions", "PendingTransactions"}

(* C15: GetOutput, GetTransaction, GetIncomingTransaction, Transactions,    *)
(* IncomingTransactions and PendingTransactions never return an error: a    *)
(* lookup that finds nothing returns OutputData(None) or Transaction(None), *)
(* and a listing of no transactions returns Transactions with an empty      *)
(* list.                                                                    *)
C15_LookupsNeverFail ==
  \A t \in Tasks :
    (pc[t] = "done" /\ method[t].name \in LookupMethods \cup ListingMethods) =>
      /\ response[t].ok
      /\ Len(calls[t]) = 1
      /\ response[t].v.variant =
           (IF method[t].name \in ListingMethods THEN "Transactions"
            ELSE IF method[t].name = "GetOutput" THEN "OutputData" ELSE "Transaction")
      /\ Len(response[t].v.data) = Len(calls[t][1].ret[1].v)

C15_Witness ==
  /\ pc["t1"] = "done" /\ method["t1"].name = "GetTransaction"
  /\ calls["t1"][1].ret[1].v = None
  /\ response["t1"] = Response("Transaction", None)

\* the commands that fetch a value from the client for the conversion of their DTOs, the
\* fetch each of them makes and the account operation that follows it
FetchingMethods == {"PrepareTransaction", "SendOutputs", "SignTransactionEssence", "SubmitAndStoreTransaction"}

ClientFetch(name) ==
  IF name \in {"PrepareTransaction", "SendOutputs"} THEN "get_token_supply" ELSE "get_protocol_parameters"

AccountOperation(name) ==
  CASE name = "PrepareTransaction" -> "prepare_transaction"
    [] name = "SendOutputs" -> "send"
    [] name = "SignTransactionEssence" -> "sign_transaction_essence"
    [] name = "SubmitAndStoreTransaction" -> "submit_and_store_transaction"

(* C16: PrepareTransaction, SendOutputs, SignTransactionEssence and         *)
(* SubmitAndStoreTransaction first fetch from the client (token supply,     *)
(* resp. protocol parameters), then convert their DTOs, then invoke the     *)
(* account operation, each step only after the earlier ones succeeded.  The *)
(* fetch is made exactly once, also when the DTOs or options do not         *)
(* convert, and then the account operation is not invoked.                  *)
C16_FetchConvertOperate ==
  \A t \in Tasks :
    (InFlight(t) /\ method[t].name \in FetchingMethods) =>
      /\ Len(calls[t]) \in {1, 2}
      /\ FirstCall(t) = [target |-> "client", op |-> ClientFetch(method[t].name), args |-> <<>>]
      /\ Len(calls[t]) = 2 =>
           /\ Returned(calls[t][1]) /\ calls[t][1].ret[1].ok
           /\ FieldsConvert(method[t])
           /\ calls[t][2].call.target = "account"
           /\ calls[t][2].call.op = AccountOperation(method[t].name)
      /\ (Returned(calls[t][1]) /\ ~calls[t][1].ret[1].ok) =>
           (pc[t] = "done" /\ Len(calls[t]) = 1 /\ ~response[t].ok)
      /\ (Returned(calls[t][1]) /\ calls[t][1].ret[1].ok /\ ~FieldsConvert(method[t])) =>
           (pc[t] = "done" /\ Len(calls[t]) = 1 /\ ~response[t].ok
            /\ response[t].err.type = "ConversionError")
      /\ (Returned(calls[t][1]) /\ calls[t][1].ret[1].ok /\ FieldsConvert(method[t])) =>
           Len(calls[t]) = 2

C16_Witness ==
  /\ pc["t1"] = "done" /\ method["t1"].name = "PrepareTransaction"
  /\ Len(method["t1"].outputs) = 2 /\ AllConvert(method["t1"].outputs)
  /\ IsSome(method["t1"].options) /\ ~method["t1"].options[1].valid
  /\ Len(calls["t1"]) = 1 /\ calls["t1"][1].ret[1].ok
  /\ ~response["t1"].ok

\* the number a string of decimal digits stands for
RECURSIVE DecimalValue(_)
DecimalValue(digits) ==
  IF Len(digits) = 0 THEN 0
  ELSE 10 * DecimalValue(SubSeq(digits, 1, Len(digits) - 1)) + DigitValue(digits[Len(digits)])

IsDecimalString(str) ==
  /\ Len(str) >= 1
  /\ \A i \in 1..Len(str) : IsDigit(str[i])
  /\ Len(str) > 1 => str[1] # "0"

(* C17: MinimumRequiredStorageDeposit invokes no operation on the account:  *)
(* it fetches the token supply from the client, converts the output DTO,    *)
(* then fetches the rent structure.  When the token-supply fetch or the     *)
(* conversion fails, the rent structure is not fetched.  On success the     *)
(* response is the rent cost of the converted output under the fetched rent *)
(* structure, as a decimal string.                                          *)
C17_MinimumRequiredStorageDeposit ==
  \A t \in Tasks :
    (InFlight(t) /\ method[t].name = "MinimumRequiredStorageDeposit") =>
      /\ AccountCalls(t) = {}
      /\ Len(calls[t]) \in {1, 2}
      /\ FirstCall(t) = [target |-> "client", op |-> "get_token_supply", args |-> <<>>]
      /\ Len(calls[t]) = 2 =>
           /\ Returned(calls[t][1]) /\ calls[t][1].ret[1].ok
           /\ method[t].output.valid
           /\ calls[t][2].call = [target |-> "client", op |-> "get_rent_structure", args |-> <<>>]
      /\ (Returned(calls[t][1]) /\ (~calls[t][1].ret[1].ok \/ ~method[t].output.valid)) =>
           (pc[t] = "done" /\ Len(calls[t]) = 1 /\ ~response[t].ok)
      /\ (pc[t] = "done" /\ response[t].ok) =>
           /\ Len(calls[t]) = 2
           /\ response[t].v.variant = "MinimumRequiredStorageDeposit"
           /\ IsDecimalString(response[t].v.data)
           /\ DecimalValue(response[t].v.data) =
                rent_cost([kind |-> "Output", id |-> method[t].output.id, with |-> calls[t][1].ret[1].v],
                          calls[t][2].ret[1].v)

C17_Witness ==
  /\ pc["t1"] = "done" /\ method["t1"].name = "MinimumRequiredStorageDeposit"
  /\ response["t1"].ok /\ Len(response["t1"].v.data) = 2
  /\ calls["t1"][1].ret[1].v # calls["t1"][2].ret[1].v

\* the commands that carry a list of DTOs, the list, and the type its elements convert to
ListMethods == {"MintNfts", "PrepareTransaction", "SendOutputs"}
ListOf(m) == IF m.name = "MintNfts" THEN m.params ELSE m.outputs
ElementKind(name) == IF name = "MintNfts" THEN "MintNftParams" ELSE "Output"

\* the first element of a list that does not convert
FirstInvalid(list) ==
  CHOOSE i \in 1..Len(list) : ~list[i].valid /\ \A j \in 1..(i - 1) : list[j].valid

(* C18: for MintNfts, PrepareTransaction and SendOutputs the list handed to *)
(* the account operation has the length and the order of the command's      *)
(* list, element i being the conversion of input element i; when an element *)
(* does not convert, the error of the first such element in list order is   *)
(* returned; an empty list is forwarded as an empty list.                   *)
C18_ListConvertedInOrder ==
  \A t \in Tasks :
    (InFlight(t) /\ method[t].name \in ListMethods) =>
      LET list == ListOf(method[t])
          kind == ElementKind(method[t].name)
      IN  /\ \A c \in AccountCalls(t) :
               LET converted == calls[t][c].call.args[1]
               IN  /\ Len(converted) = Len(list)
                   /\ \A i \in 1..Len(list) :
                        /\ converted[i].kind = kind
                        /\ converted[i].id = list[i].id
                        /\ kind = "Output" => converted[i].with = calls[t][1].ret[1].v
          /\ (~AllConvert(list) /\ pc[t] = "done"
              /\ (method[t].name # "MintNfts" => calls[t][1].ret[1].ok)) =>
               response[t] = [ok |-> FALSE,
                              err |-> [type |-> "ConversionError", detail |-> <<kind>>,
                                       id |-> list[FirstInvalid(list)].id]]
          /\ (Len(list) = 0 /\ OptionConverts(method[t].options)
              /\ (method[t].name # "MintNfts" => (Returned(calls[t][1]) /\ calls[t][1].ret[1].ok))) =>
               AccountCalls(t) # {}

C18_Witness ==
  /\ pc["t1"] = "done" /\ method["t1"].name = "SendOutputs"
  /\ Len(method["t1"].outputs) = 2
  /\ ~method["t1"].outputs[1].valid /\ ~method["t1"].outputs[2].valid
  /\ method["t1"].outputs[1].id # method["t1"].outputs[2].id
  /\ ~response["t1"].ok /\ response["t1"].err.id = method["t1"].outputs[1].id

(* C20: provided every external call it awaits eventually returns, every    *)
(* dispatch ends with a Response or an error; it makes at most two external *)
(* calls, whatever the command and the size of its payload, and when it     *)
(* makes two the first is a client fetch.                                   *)
C20_DispatchTerminates ==
  /\ [](\A t \in Tasks :
          /\ Len(calls[t]) <= 2
          /\ Len(calls[t]) = 2 => FirstCall(t).target = "client")
  /\ \A t \in Tasks : (pc[t] = "await") ~> (pc[t] = "done")

C20_Witness ==
  /\ pc["t1"] = "done" /\ method["t1"].name = "SendOutputs"
  /\ Len(method["t1"].outputs) = MaxLen
  /\ Len(calls["t1"]) = 2 /\ response["t1"].ok

\* a name in camelCase: joined in camel style, or one lower-case word
IsCamelCase(n) == n.style = "camel" \/ (n.style = "snake" /\ Len(n.words) = 1)

\* obj is an object {tag: variant, content: {fields}} of the command msg with camelCase names;
\* the content is missing when the variant has no field
TaggedObject(obj, tag, content, nfields) ==
  /\ Len(obj) = (IF nfields = 0 THEN 1 ELSE 2)
  /\ obj[1].key.words = <<tag>>
  /\ IsCamelCase(obj[1].value)
  /\ nfields > 0 =>
       /\ obj[2].key.words = <<content>>
       /\ Len(obj[2].value) = nfields
       /\ \A i \in 1..nfields : IsCamelCase(obj[2].value[i].key)

AccountObject(obj, m) == TaggedObject(obj, "name", "data", Cardinality(DOMAIN m) - 1)
WalletObject(obj, w) == TaggedObject(obj, "cmd", "payload", Cardinality(DOMAIN w) - 1)

(* C11: on the wire an AccountMethod is an object with its variant under    *)
(* `name` and its fields under `data`, a WalletMethod one with its variant  *)
(* under `cmd` and its fields under `payload`; every variant name and every *)
(* field name is camelCase, and CallAccountMethod carries a {name, data}    *)
(* object in the field `method` of its payload, next to `accountId`.        *)
C11_WireFormat ==
  /\ rendered.format = "AccountMethod json" => AccountObject(rendered.out, message)
  /\ rendered.format = "WalletMethod json" =>
       /\ WalletObject(rendered.out, message)
       /\ message.cmd = "CallAccountMethod" =>
            LET payload == rendered.out[2].value
            IN  /\ payload[1].key = WireName("camel", <<"account", "id">>)
                /\ payload[1].value = message.account_id
                /\ payload[2].key.words = <<"method">>
                /\ AccountObject(payload[2].value, message.method)

C11_Witness ==
  /\ rendered.format = "WalletMethod json"
  /\ message.cmd = "CallAccountMethod"
  /\ message.method.name = "ConsolidateOutputs"
  /\ rendered.out[1].value = WireName("camel", <<"call", "account", "method">>)
  /\ rendered.out[2].value[2].value[1].value = WireName("camel", <<"consolidate", "outputs">>)
  /\ rendered.out[2].value[2].value[2].value[2].key =
       WireName("camel", <<"output", "consolidation", "threshold">>)

\* the fields of a message to the wallet that hold a secret
SecretFields(cmd) ==
  CASE cmd \in {"Backup", "RestoreBackup", "SetStrongholdPassword"} -> {"password"}
    [] cmd = "ChangeStrongholdPassword" -> {"current_password", "new_password"}
    [] cmd = "StoreMnemonic" -> {"mnemonic"}
    [] OTHER -> {}

\* the message w with its secrets replaced by those of `secrets`
WithSecrets(w, secrets) ==
  [f \in DOMAIN w |-> IF f \in DOMAIN secrets THEN secrets[f] ELSE w[f]]

(* C19: the Debug rendering of a WalletMethod does not show its secret      *)
(* fields (password, current_password, new_password, mnemonic): messages    *)
(* that differ only in them have the same Debug rendering.                  *)
C19_DebugOmitsSecrets ==
  rendered.format = "WalletMethod debug" =>
    /\ \A i \in 1..Len(rendered.out.fields) :
         rendered.out.fields[i].name \in SecretFields(message.cmd) =>
           rendered.out.fields[i].text.value = None
    /\ \A secrets \in [SecretFields(message.cmd) -> Ids] :
         DebugWalletMethod(WithSecrets(message, secrets)) = rendered.out

C19_Witness ==
  /\ rendered.format = "WalletMethod debug"
  /\ message.cmd = "ChangeStrongholdPassword"
  /\ message.current_password # message.new_password
  /\ Len(rendered.out.fields) = 2
====
